---- MODULE Spec2Model ----
(***************************************************************************)
(* Model of NexusVoidClient (src/src/index.ts): configuration, the axios   *)
(* instance it owns, error classification, the retry policy and the two    *)
(* remote operations analyzePrompt and healthCheck.                        *)
(*                                                                         *)
(* An optional JavaScript value is a sequence of length 0 or 1: None is    *)
(* `undefined` (or a property that is not there), Some(v) is the value v.  *)
(* An absent string that is only ever tested for truthiness is "".         *)
(***************************************************************************)
EXTENDS Integers, Sequences, FiniteSets, TLC

None == << >>
Some(v) == << v >>
IsSome(o) == o # None
Val(o) == o[1]

(***************************************************************************)
(* Bounds of the model.                                                    *)
(***************************************************************************)
\* largest retry budget given to the constructor or in options.retries
MaxRetries == 2

\* identities of the calls the caller makes, one at a time
Calls == {"c1"}

\* credentials and endpoints the caller uses
CtorKeys == {"k0"}
SetKeys == {"x"}
CtorUrls == {"https://test-api.nexusvoid.com"}
SetUrls == {"https://new-api.nexusvoid.com"}
CtorTimeouts == {5000}
OptTimeouts == {15000}

\* prompts handed to analyzePrompt: [type, val]; val is the length of a
\* string and the value of a number
Prompts ==
    { [type |-> "string", val |-> n] : n \in {0, 10000, 10001} }
    \cup { [type |-> "number", val |-> n] : n \in {0, 5} }
    \cup { [type |-> t, val |-> 0] : t \in {"null", "undefined", "object"} }

NoPrompt == [type |-> "undefined", val |-> 0]

\* response bodies of the remote service
Bodies == {"body"}

(***************************************************************************)
(* Program constants.                                                      *)
(***************************************************************************)
DefaultBaseUrl == "https://api.nexusvoid.com"
DefaultTimeout == 30000
DefaultRetries == 3
MaxPromptLength == 10000
BackoffBase == 1000

AnalyzePath == "/v1/prompt-analysis/analyze"
HealthPath == "/v1/prompt-analysis/health"

(***************************************************************************)
(* errors.ts: the error taxonomy.  An error is [kind, code, status,        *)
(* message]; status is optional.                                           *)
(***************************************************************************)
NexusVoidError(message, code, status) ==
    [kind |-> "NexusVoidError", code |-> code, status |-> status, message |-> message]

AuthenticationError(message) ==
    [kind |-> "AuthenticationError", code |-> "AUTH_ERROR", status |-> Some(401), message |-> message]

RateLimitError(message) ==
    [kind |-> "RateLimitError", code |-> "RATE_LIMIT_ERROR", status |-> Some(429), message |-> message]

ValidationError(message) ==
    [kind |-> "ValidationError", code |-> "VALIDATION_ERROR", status |-> Some(400), message |-> message]

ServiceError(message) ==
    [kind |-> "ServiceError", code |-> "SERVICE_ERROR", status |-> Some(500), message |-> message]

TimeoutError(message) ==
    [kind |-> "TimeoutError", code |-> "TIMEOUT_ERROR", status |-> Some(408), message |-> message]

NoError == [kind |-> "", code |-> "", status |-> None, message |-> ""]

(***************************************************************************)
(* Raw transport failures, as axios rejects them: [response, code,         *)
(* message] with response optional, response = [status, data] and data =   *)
(* [error, message].                                                       *)
(***************************************************************************)
Statuses == {400, 401, 404, 408, 429, 500, 502, 503, 504}
TransportCodes == {"ECONNABORTED", "ENOTFOUND", "ECONNREFUSED", "ERR_NETWORK"}

RawFailures ==
    { [response |-> Some([status |-> s, data |-> [error |-> "", message |-> "remote"]]),
       code |-> "ERR_BAD_RESPONSE", message |-> "Request failed"] : s \in Statuses }
    \cup { [response |-> None, code |-> c, message |-> "transport"] : c \in TransportCodes }

\* the raw failures in full: every status with every transport code and
\* every combination of the three message sources present or absent
StatusesWide == Statuses \cup {403, 501, 302}
TransportCodesWide == TransportCodes \cup {"ERR_BAD_RESPONSE", ""}

AllRawFailures ==
    { [response |-> Some([status |-> s, data |-> [error |-> e, message |-> m]]),
       code |-> c, message |-> t] :
          s \in StatusesWide, c \in TransportCodesWide,
          e \in {"", "data.error"}, m \in {"", "data.message"}, t \in {"", "error.message"} }
    \cup { [response |-> None, code |-> c, message |-> t] :
             c \in TransportCodesWide, t \in {"", "error.message"} }

\* a || b on strings: the first truthy (non-empty) operand
OrElse(a, b) == IF a # "" THEN a ELSE b

\* handleError with the tests of error.code ahead of the test of
\* error.response
handleErrorCodeFirst(error) ==
    IF error.code = "ECONNABORTED"
    THEN TimeoutError("Request timeout")
    ELSE IF error.code \in {"ENOTFOUND", "ECONNREFUSED"}
    THEN ServiceError("Unable to connect to NexusVoid API")
    ELSE IF IsSome(error.response)
    THEN LET status == Val(error.response).status
             data == Val(error.response).data
             message == OrElse(data.error, OrElse(data.message, OrElse(error.message, "Unknown error")))
         IN  CASE status = 401 -> AuthenticationError(message)
               [] status = 429 -> RateLimitError(message)
               [] status = 400 -> ValidationError(message)
               [] status = 408 -> TimeoutError(message)
               [] status \in {500, 502, 503, 504} -> ServiceError(message)
               [] OTHER -> NexusVoidError(message, "HTTP_ERROR", Some(status))
    ELSE NexusVoidError(OrElse(error.message, "Unknown error"), "UNKNOWN_ERROR", None)

handleError(error) ==
    IF IsSome(error.response)
    THEN LET status == Val(error.response).status
             data == Val(error.response).data
             message == OrElse(data.error, OrElse(data.message, OrElse(error.message, "Unknown error")))
         IN  CASE status = 401 -> AuthenticationError(message)
               [] status = 429 -> RateLimitError(message)
               [] status = 400 -> ValidationError(message)
               [] status = 408 -> TimeoutError(message)
               [] status \in {500, 502, 503, 504} -> ServiceError(message)
               [] OTHER -> NexusVoidError(message, "HTTP_ERROR", Some(status))
    ELSE IF error.code = "ECONNABORTED"
    THEN TimeoutError("Request timeout")
    ELSE IF error.code \in {"ENOTFOUND", "ECONNREFUSED"}
    THEN ServiceError("Unable to connect to NexusVoid API")
    ELSE NexusVoidError(OrElse(error.message, "Unknown error"), "UNKNOWN_ERROR", None)

\* shouldRetry without its test for ServiceError
shouldRetryNoService(error) ==
    \/ error.kind = "RateLimitError"
    \/ error.kind = "TimeoutError"

\* shouldRetry without its instanceof tests
shouldRetryAny(error) == TRUE

shouldRetry(error) ==
    \/ error.kind = "RateLimitError"
    \/ error.kind = "TimeoutError"
    \/ /\ error.kind = "ServiceError"
       /\ IsSome(error.status)
       /\ Val(error.status) # 0
       /\ Val(error.status) >= 500

(***************************************************************************)
(* State.                                                                  *)
(***************************************************************************)
VARIABLES
    config,     \* this.config: [apiKey, baseUrl, timeout, retries]
    defaults,   \* this.client.defaults of the axios instance
    calls,      \* the calls of analyzePrompt / healthCheck, by identity:
                \*   pc        idle, inflight (awaiting the transport), backoff
                \*             (awaiting this.delay), done
                \*   retries   the parameter `retries` of the running retryRequest
                \*   attempts  invocations of the transport so far
                \*   waits     the arguments of this.delay so far
                \*   req       the request of the latest attempt
                \*   issued    what a request carried when the call was issued
                \*   raw       the raw failure of the latest failed attempt
                \*   sameFailure  all failed attempts so far failed the same way
                \*   caught    what the catch block of the operation caught
                \*   result, error  what the call returned or threw (while in
                \*             backoff: the error caught)
    snapshot,   \* the object the latest getConfig() returned, as the caller
                \* holds it: [alias, mutated, value]; alias says that it is
                \* the object this.config itself
    ctor,       \* the argument of the constructor
    lastSet     \* the arguments of the latest setApiKey and setBaseUrl

vars == << config, defaults, calls, snapshot, ctor, lastSet >>

Bearer(apiKey) == << "Bearer", apiKey >>

\* a call that has not been issued
IdleCall ==
    [pc |-> "idle", op |-> "", prompt |-> NoPrompt,
     options |-> [timeout |-> None, retries |-> None],
     requestConfig |-> [timeout |-> None],
     retries |-> None, attempts |-> 0, waits |-> << >>,
     req |-> None, issued |-> None, raw |-> None, sameFailure |-> TRUE,
     caught |-> None, result |-> None, error |-> NoError]

\* constructor with the spread ahead of the defaults: { ...config, baseUrl, timeout, retries }
ConstructDefaultsLast(cfg) ==
    [apiKey |-> cfg.apiKey,
     baseUrl |-> DefaultBaseUrl,
     timeout |-> DefaultTimeout,
     retries |-> DefaultRetries]

\* constructor: the defaults, overridden by every field the caller supplies
Construct(cfg) ==
    [apiKey |-> cfg.apiKey,
     baseUrl |-> IF IsSome(cfg.baseUrl) THEN Val(cfg.baseUrl) ELSE DefaultBaseUrl,
     timeout |-> IF IsSome(cfg.timeout) THEN Val(cfg.timeout) ELSE DefaultTimeout,
     retries |-> IF IsSome(cfg.retries) THEN Val(cfg.retries) ELSE DefaultRetries]

\* axios.create: the instance defaults; the headers given to create() sit at
\* the top level of defaults.headers, headers.common holds no Authorization
AxiosCreate(c) ==
    [baseURL |-> c.baseUrl,
     timeout |-> c.timeout,
     headers |-> [Authorization |-> Some(Bearer(c.apiKey)),
                  common |-> [Authorization |-> None]]]

CtorConfigs ==
    [apiKey : CtorKeys,
     baseUrl : {None} \cup {Some(u) : u \in CtorUrls},
     timeout : {None} \cup {Some(t) : t \in CtorTimeouts},
     retries : {None} \cup {Some(r) : r \in 0..MaxRetries}]

Init ==
    \E cfg \in CtorConfigs :
        /\ config = Construct(cfg)
        /\ defaults = AxiosCreate(Construct(cfg))
        /\ calls = [c \in Calls |-> IdleCall]
        /\ snapshot = None
        /\ ctor = cfg
        /\ lastSet = [apiKey |-> None, baseUrl |-> None]

(***************************************************************************)
(* The transport: what one request of the axios instance carries.  axios   *)
(* merges the instance defaults with the per-request config when the       *)
(* request is made; of the headers, headers.common is the base and the     *)
(* top-level headers are laid over it.                                     *)
(***************************************************************************)
MergedAuthorization(d) ==
    IF IsSome(d.headers.Authorization)
    THEN d.headers.Authorization
    ELSE d.headers.common.Authorization

Request(d, path, data, requestConfig) ==
    [path |-> path,
     data |-> data,
     baseURL |-> d.baseURL,
     timeout |-> IF IsSome(requestConfig.timeout) THEN Val(requestConfig.timeout) ELSE d.timeout,
     Authorization |-> MergedAuthorization(d)]


\* analyzePrompt's parameters at their boundaries: prompts of length 0, 1,
\* 9999, 10000, 10001 and the non-strings; options.timeout 0 included
PromptsWide ==
    Prompts \cup { [type |-> "string", val |-> n] : n \in {1, 9999} }

AnalysisOptionsWide ==
    [timeout : {None, Some(0)} \cup {Some(t) : t \in OptTimeouts},
     retries : {None} \cup {Some(r) : r \in 0..MaxRetries}]

\* the value of a prompt in a boolean context
Truthy(prompt) ==
    CASE prompt.type = "string" -> prompt.val > 0
      [] prompt.type = "number" -> prompt.val # 0
      [] prompt.type = "object" -> TRUE
      [] OTHER -> FALSE

\* options.timeout || this.config.timeout
EffectiveTimeout(options) ==
    IF IsSome(options.timeout) /\ Val(options.timeout) # 0
    THEN options.timeout
    ELSE Some(config.timeout)

\* retryRequest's parameter `retries`: its default applies to undefined
EffectiveRetriesIgnoreOptions(retries) == config.retries

EffectiveRetries(retries) ==
    IF IsSome(retries) THEN Val(retries) ELSE config.retries

\* the argument of this.delay() in retryRequest's catch block
BackoffDelay(retries) == BackoffBase * (config.retries - retries + 1)

AnalysisOptions ==
    [timeout : {None} \cup {Some(t) : t \in OptTimeouts},
     retries : {None} \cup {Some(r) : r \in 0..MaxRetries}]

\* one invocation of requestFn by retryRequest: the request is built from
\* the instance defaults as they are now
Attempt(call, path) ==
    [call EXCEPT !.pc = "inflight",
                 !.attempts = call.attempts + 1,
                 !.req = Some(Request(defaults, path,
                                      IF path = AnalyzePath THEN Some([prompt |-> call.prompt]) ELSE None,
                                      call.requestConfig))]

\* what a request made now carries of the mutable configuration
InForce ==
    [baseURL |-> defaults.baseURL, Authorization |-> MergedAuthorization(defaults)]

\* analyzePrompt's first precondition: !prompt || typeof prompt !== 'string'
InvalidPromptFalsyOnly(prompt) == ~Truthy(prompt)

InvalidPrompt(prompt) == ~Truthy(prompt) \/ prompt.type # "string"

\* analyzePrompt's second precondition: prompt.length > 10000
TooLongInclusive(prompt) == prompt.val >= MaxPromptLength

TooLongOffByOne(prompt) == prompt.val > MaxPromptLength + 1

TooLong(prompt) == prompt.val > MaxPromptLength

Fail(call, error) ==
    [call EXCEPT !.pc = "done", !.error = error]

\* error instanceof NexusVoidError
IsNexusVoidError(error) ==
    error.kind \in {"NexusVoidError", "AuthenticationError", "RateLimitError",
                    "ValidationError", "ServiceError", "TimeoutError"}

\* the catch block of analyzePrompt and of healthCheck, without the wrapping
PropagateAsCaught(op, error) == error

\* the catch block of analyzePrompt and of healthCheck: what is thrown to
\* the caller for what was caught
Propagate(op, error) ==
    IF IsNexusVoidError(error)
    THEN error
    ELSE ServiceError(IF op = "analyzePrompt" THEN "Failed to analyze prompt"
                                               ELSE "Failed to check service health")

(***************************************************************************)
(* Actions.                                                                *)
(***************************************************************************)
\* analyzePrompt, had it stored the per-call options in this.config
AnalyzePromptStoringOptions(c, prompt, options) ==
    /\ calls[c].pc = "idle"
    /\ LET call == [IdleCall EXCEPT !.op = "analyzePrompt", !.prompt = prompt,
                                    !.options = options, !.issued = Some(InForce)]
       IN  calls' = [calls EXCEPT ![c] =
              IF InvalidPrompt(prompt)
              THEN Fail(call, ValidationError("Prompt must be a non-empty string"))
              ELSE IF TooLong(prompt)
              THEN Fail(call, ValidationError("Prompt must be less than 10,000 characters"))
              ELSE Attempt([call EXCEPT !.requestConfig = [timeout |-> EffectiveTimeout(options)],
                                           !.retries = Some(EffectiveRetries(options.retries))],
                           AnalyzePath)]
    /\ config' = [config EXCEPT !.timeout = Val(EffectiveTimeout(options)),
                                !.retries = EffectiveRetries(options.retries)]
    /\ UNCHANGED << defaults, snapshot, ctor, lastSet >>

\* analyzePrompt up to its first await: the precondition checks and the
\* first invocation of requestFn
AnalyzePrompt(c, prompt, options) ==
    /\ calls[c].pc = "idle"
    /\ LET call == [IdleCall EXCEPT !.op = "analyzePrompt", !.prompt = prompt,
                                    !.options = options, !.issued = Some(InForce)]
       IN  calls' = [calls EXCEPT ![c] =
              IF InvalidPrompt(prompt)
              THEN Fail(call, ValidationError("Prompt must be a non-empty string"))
              ELSE IF TooLong(prompt)
              THEN Fail(call, ValidationError("Prompt must be less than 10,000 characters"))
              ELSE Attempt([call EXCEPT !.requestConfig = [timeout |-> EffectiveTimeout(options)],
                                           !.retries = Some(EffectiveRetries(options.retries))],
                           AnalyzePath)]
    /\ UNCHANGED << config, defaults, snapshot, ctor, lastSet >>

\* healthCheck, had it been wrapped in retryRequest like analyzePrompt
HealthCheckWithRetry(c) ==
    /\ calls[c].pc = "idle"
    /\ calls' = [calls EXCEPT ![c] =
          Attempt([IdleCall EXCEPT !.op = "healthCheck", !.issued = Some(InForce),
                                   !.retries = Some(config.retries)],
                  HealthPath)]
    /\ UNCHANGED << config, defaults, snapshot, ctor, lastSet >>

\* healthCheck up to its await: one GET, outside retryRequest
HealthCheck(c) ==
    /\ calls[c].pc = "idle"
    /\ calls' = [calls EXCEPT ![c] =
          Attempt([IdleCall EXCEPT !.op = "healthCheck", !.issued = Some(InForce)],
                  HealthPath)]
    /\ UNCHANGED << config, defaults, snapshot, ctor, lastSet >>

\* the transport resolves: the call returns response.data
Resolve(c, body) ==
    /\ calls[c].pc = "inflight"
    /\ calls' = [calls EXCEPT ![c] = [@ EXCEPT !.pc = "done", !.result = Some(body)]]
    /\ UNCHANGED << config, defaults, snapshot, ctor, lastSet >>

\* retryRequest, had it tested retries >= 0
RejectRetryAtZero(c, raw) ==
    /\ calls[c].pc = "inflight"
    /\ LET call == [calls[c] EXCEPT !.raw = Some(raw),
                                    !.sameFailure = @ /\ calls[c].raw \in {None, Some(raw)}]
           error == handleError(raw)
       IN  calls' = [calls EXCEPT ![c] =
              IF /\ IsSome(call.retries)
                 /\ Val(call.retries) >= 0
                 /\ shouldRetry(error)
              THEN [call EXCEPT !.pc = "backoff", !.error = error,
                                !.waits = Append(@, BackoffDelay(Val(call.retries)))]
              ELSE Fail([call EXCEPT !.caught = Some(error)], Propagate(call.op, error))]
    /\ UNCHANGED << config, defaults, snapshot, ctor, lastSet >>

\* retryRequest, had it awaited this.delay ahead of its test of the budget
\* and of shouldRetry
RejectDelayFirst(c, raw) ==
    /\ calls[c].pc = "inflight"
    /\ LET call == [calls[c] EXCEPT !.raw = Some(raw),
                                    !.sameFailure = @ /\ calls[c].raw \in {None, Some(raw)}]
           error == handleError(raw)
       IN  calls' = [calls EXCEPT ![c] =
              IF /\ IsSome(call.retries)
                 /\ Val(call.retries) > 0
                 /\ shouldRetry(error)
              THEN [call EXCEPT !.pc = "backoff", !.error = error,
                                !.waits = Append(@, BackoffDelay(Val(call.retries)))]
              ELSE Fail([call EXCEPT !.caught = Some(error),
                                     !.waits = IF IsSome(call.retries)
                                               THEN Append(@, BackoffDelay(Val(call.retries)))
                                               ELSE @],
                        Propagate(call.op, error))]
    /\ UNCHANGED << config, defaults, snapshot, ctor, lastSet >>

\* retryRequest, had it thrown the error of the first failed attempt when
\* the budget runs out
RejectKeepFirst(c, raw) ==
    /\ calls[c].pc = "inflight"
    /\ LET call == [calls[c] EXCEPT !.raw = Some(raw),
                                    !.sameFailure = @ /\ calls[c].raw \in {None, Some(raw)}]
           error == IF calls[c].error # NoError THEN calls[c].error ELSE handleError(raw)
       IN  calls' = [calls EXCEPT ![c] =
              IF /\ IsSome(call.retries)
                 /\ Val(call.retries) > 0
                 /\ shouldRetry(error)
              THEN [call EXCEPT !.pc = "backoff", !.error = error,
                                !.waits = Append(@, BackoffDelay(Val(call.retries)))]
              ELSE Fail([call EXCEPT !.caught = Some(error)], Propagate(call.op, error))]
    /\ UNCHANGED << config, defaults, snapshot, ctor, lastSet >>

\* the transport rejects: the response interceptor classifies the failure,
\* then the catch block of retryRequest (a call that runs inside retryRequest
\* has its parameter `retries`) and the catch block of the operation
Reject(c, raw) ==
    /\ calls[c].pc = "inflight"
    /\ LET call == [calls[c] EXCEPT !.raw = Some(raw),
                                    !.sameFailure = @ /\ calls[c].raw \in {None, Some(raw)}]
           error == handleError(raw)
       IN  calls' = [calls EXCEPT ![c] =
              IF /\ IsSome(call.retries)
                 /\ Val(call.retries) > 0
                 /\ shouldRetry(error)
              THEN [call EXCEPT !.pc = "backoff", !.error = error,
                                !.waits = Append(@, BackoffDelay(Val(call.retries)))]
              ELSE Fail([call EXCEPT !.caught = Some(error)], Propagate(call.op, error))]
    /\ UNCHANGED << config, defaults, snapshot, ctor, lastSet >>

\* a failure that reaches the catch blocks as the transport raised it, not
\* as a NexusVoidError: a transport whose rejections do not pass through the
\* response interceptor
Untyped(raw) ==
    [kind |-> "AxiosError", code |-> raw.code, status |-> None, message |-> raw.message]

\* the transport rejects and the rejection reaches the catch blocks untyped
RejectUntyped(c, raw) ==
    /\ calls[c].pc = "inflight"
    /\ LET call == [calls[c] EXCEPT !.raw = Some(raw),
                                    !.sameFailure = @ /\ calls[c].raw \in {None, Some(raw)}]
           error == Untyped(raw)
       IN  calls' = [calls EXCEPT ![c] =
              IF /\ IsSome(call.retries)
                 /\ Val(call.retries) > 0
                 /\ shouldRetry(error)
              THEN [call EXCEPT !.pc = "backoff", !.error = error,
                                !.waits = Append(@, BackoffDelay(Val(call.retries)))]
              ELSE Fail([call EXCEPT !.caught = Some(error)], Propagate(call.op, error))]
    /\ UNCHANGED << config, defaults, snapshot, ctor, lastSet >>

\* the backoff timer, had retryRequest held a lock shared by the calls of a
\* client while a request is in flight
DelayElapsedSerialized(c) ==
    /\ calls[c].pc = "backoff"
    /\ \A d \in DOMAIN calls \ {c} : calls[d].pc # "inflight"
    /\ calls' = [calls EXCEPT ![c] =
          Attempt([@ EXCEPT !.retries = Some(Val(@) - 1)], Val(@.req).path)]
    /\ UNCHANGED << config, defaults, snapshot, ctor, lastSet >>

\* a retry that sends the request of the previous attempt again
DelayElapsedStale(c) ==
    /\ calls[c].pc = "backoff"
    /\ calls' = [calls EXCEPT ![c] =
          [@ EXCEPT !.retries = Some(Val(@) - 1), !.pc = "inflight",
                    !.attempts = @ + 1]]
    /\ UNCHANGED << config, defaults, snapshot, ctor, lastSet >>

\* the backoff timer fires: retryRequest(requestFn, retries - 1)
DelayElapsed(c) ==
    /\ calls[c].pc = "backoff"
    /\ calls' = [calls EXCEPT ![c] =
          Attempt([@ EXCEPT !.retries = Some(Val(@) - 1)], Val(@.req).path)]
    /\ UNCHANGED << config, defaults, snapshot, ctor, lastSet >>

\* the caller has taken the outcome of a finished call
Settle(c) ==
    /\ calls[c].pc = "done"
    /\ calls' = [calls EXCEPT ![c] = IdleCall]
    /\ UNCHANGED << config, defaults, snapshot, ctor, lastSet >>

\* setApiKey, had it updated the header only
setApiKeyHeaderOnly(apiKey) ==
    /\ defaults' = [defaults EXCEPT !.headers.common.Authorization = Some(Bearer(apiKey))]
    /\ lastSet' = [lastSet EXCEPT !.apiKey = Some(apiKey)]
    /\ UNCHANGED << config, calls, snapshot, ctor >>

setApiKey(apiKey) ==
    /\ config' = [config EXCEPT !.apiKey = apiKey]
    /\ defaults' = [defaults EXCEPT !.headers.common.Authorization = Some(Bearer(apiKey))]
    /\ lastSet' = [lastSet EXCEPT !.apiKey = Some(apiKey)]
    /\ UNCHANGED << calls, snapshot, ctor >>

\* setBaseUrl, had it updated this.config only
setBaseUrlConfigOnly(baseUrl) ==
    /\ config' = [config EXCEPT !.baseUrl = baseUrl]
    /\ lastSet' = [lastSet EXCEPT !.baseUrl = Some(baseUrl)]
    /\ UNCHANGED << defaults, calls, snapshot, ctor >>

setBaseUrl(baseUrl) ==
    /\ config' = [config EXCEPT !.baseUrl = baseUrl]
    /\ defaults' = [defaults EXCEPT !.baseURL = baseUrl]
    /\ lastSet' = [lastSet EXCEPT !.baseUrl = Some(baseUrl)]
    /\ UNCHANGED << calls, snapshot, ctor >>

\* getConfig, had it returned this.config itself
getConfigLive ==
    /\ snapshot' = Some([alias |-> TRUE, mutated |-> FALSE, value |-> config])
    /\ UNCHANGED << config, defaults, calls, ctor, lastSet >>

\* getConfig: { ...this.config }, a new object with the four fields' values
getConfig ==
    /\ snapshot' = Some([alias |-> FALSE, mutated |-> FALSE, value |-> config])
    /\ UNCHANGED << config, defaults, calls, ctor, lastSet >>

\* what a caller may assign to the fields of a returned configuration
Mutations ==
    { << "apiKey", "mutated-key" >>, << "baseUrl", "https://mutated.example" >>,
      << "timeout", 1 >>, << "retries", 0 >> }

\* the caller assigns to a field of the object getConfig returned; this
\* writes this.config only if that object is this.config
MutateReturned(field, value) ==
    /\ IsSome(snapshot)
    /\ Val(snapshot).value[field] # value
    /\ snapshot' = Some([Val(snapshot) EXCEPT !.value[field] = value, !.mutated = TRUE])
    /\ config' = IF Val(snapshot).alias THEN [config EXCEPT ![field] = value] ELSE config
    /\ UNCHANGED << defaults, calls, ctor, lastSet >>

Next ==
    \/ \E c \in DOMAIN calls, prompt \in Prompts, options \in AnalysisOptions :
          AnalyzePrompt(c, prompt, options)
    \/ \E c \in DOMAIN calls : HealthCheck(c)
    \/ \E c \in DOMAIN calls, body \in Bodies : Resolve(c, body)
    \/ \E c \in DOMAIN calls, raw \in RawFailures : Reject(c, raw)
    \/ \E c \in DOMAIN calls : DelayElapsed(c)
    \/ \E c \in DOMAIN calls : Settle(c)
    \/ \E apiKey \in SetKeys : setApiKey(apiKey)
    \/ \E baseUrl \in SetUrls : setBaseUrl(baseUrl)

Spec == Init /\ [][Next]_vars

(***************************************************************************)
(* Classification on its own: healthCheck calls against a transport that   *)
(* fails in every way of AllRawFailures.                                   *)
(***************************************************************************)
NextClassify ==
    \/ \E c \in DOMAIN calls : HealthCheck(c)
    \/ \E c \in DOMAIN calls, body \in Bodies : Resolve(c, body)
    \/ \E c \in DOMAIN calls, raw \in AllRawFailures : Reject(c, raw)
    \/ \E c \in DOMAIN calls : Settle(c)

SpecClassify == Init /\ [][NextClassify]_vars

(***************************************************************************)
(* The configuration surface: the constructor, the setters, getConfig and  *)
(* a caller that writes to what getConfig returned, around analyzePrompt   *)
(* calls with every per-call option.                                       *)
(***************************************************************************)
ConfigPrompts == { [type |-> "string", val |-> 10000] }

ConfigFailures ==
    { r \in RawFailures : IsSome(r.response) /\ Val(r.response).status \in {401, 503} }

NextConfig ==
    \/ getConfig
    \/ \E m \in Mutations : MutateReturned(m[1], m[2])
    \/ \E apiKey \in SetKeys : setApiKey(apiKey)
    \/ \E baseUrl \in SetUrls : setBaseUrl(baseUrl)
    \/ \E c \in DOMAIN calls, prompt \in ConfigPrompts, options \in AnalysisOptions :
          AnalyzePrompt(c, prompt, options)
    \/ \E c \in DOMAIN calls, body \in Bodies : Resolve(c, body)
    \/ \E c \in DOMAIN calls, raw \in ConfigFailures : Reject(c, raw)
    \/ \E c \in DOMAIN calls : DelayElapsed(c)
    \/ \E c \in DOMAIN calls : Settle(c)

SpecConfig == Init /\ [][NextConfig]_vars

(***************************************************************************)
(* analyzePrompt against a transport whose failures differ in kind and in  *)
(* message from one attempt to the next.                                   *)
(***************************************************************************)
MixedFailures ==
    { [response |-> Some([status |-> 503, data |-> [error |-> "unavailable", message |-> ""]]),
       code |-> "ERR_BAD_RESPONSE", message |-> "Request failed"],
      [response |-> Some([status |-> 429, data |-> [error |-> "", message |-> "slow down"]]),
       code |-> "ERR_BAD_RESPONSE", message |-> "Request failed"],
      [response |-> Some([status |-> 401, data |-> [error |-> "", message |-> ""]]),
       code |-> "ERR_BAD_REQUEST", message |-> "Request failed"],
      [response |-> None, code |-> "ECONNABORTED", message |-> "timeout exceeded"],
      [response |-> None, code |-> "ECONNREFUSED", message |-> "connect refused"] }

NextMixed ==
    \/ \E c \in DOMAIN calls, prompt \in ConfigPrompts, options \in AnalysisOptions :
          AnalyzePrompt(c, prompt, options)
    \/ \E c \in DOMAIN calls, body \in Bodies : Resolve(c, body)
    \/ \E c \in DOMAIN calls, raw \in MixedFailures : Reject(c, raw)
    \/ \E c \in DOMAIN calls : DelayElapsed(c)
    \/ \E c \in DOMAIN calls : Settle(c)

SpecMixed == Init /\ [][NextMixed]_vars

(***************************************************************************)
(* analyzePrompt over the boundaries of its parameters.                    *)
(***************************************************************************)
NextInputs ==
    \/ \E c \in DOMAIN calls, prompt \in PromptsWide, options \in AnalysisOptionsWide :
          AnalyzePrompt(c, prompt, options)
    \/ \E c \in DOMAIN calls, body \in Bodies : Resolve(c, body)
    \/ \E c \in DOMAIN calls, raw \in ConfigFailures : Reject(c, raw)
    \/ \E c \in DOMAIN calls : DelayElapsed(c)
    \/ \E c \in DOMAIN calls : Settle(c)

SpecInputs == Init /\ [][NextInputs]_vars

(***************************************************************************)
(* The setters with more than one argument each, observed through          *)
(* getConfig and through healthCheck requests.                             *)
(***************************************************************************)
SetKeysWide == SetKeys \cup {"y"}
SetUrlsWide == SetUrls \cup {"https://other-api.nexusvoid.com"}

NextSetters ==
    \/ getConfig
    \/ \E m \in Mutations : MutateReturned(m[1], m[2])
    \/ \E apiKey \in SetKeysWide : setApiKey(apiKey)
    \/ \E baseUrl \in SetUrlsWide : setBaseUrl(baseUrl)
    \/ \E c \in DOMAIN calls : HealthCheck(c)
    \/ \E c \in DOMAIN calls, body \in Bodies : Resolve(c, body)
    \/ \E c \in DOMAIN calls : Settle(c)

SpecSetters == Init /\ [][NextSetters]_vars

(***************************************************************************)
(* analyzePrompt with budgets of either sign, over a transport that        *)
(* settles every request and timers that fire: an awaited promise of the   *)
(* transport or of setTimeout that can complete does complete.             *)
(***************************************************************************)
AnalysisOptionsSigned ==
    [timeout : {None},
     retries : {None} \cup {Some(r) : r \in (0 - 1)..MaxRetries}]

TransportCompletes ==
    \E c \in DOMAIN calls :
        \/ \E body \in Bodies : Resolve(c, body)
        \/ \E raw \in ConfigFailures : Reject(c, raw)

TimerFires == \E c \in DOMAIN calls : DelayElapsed(c)

NextTerminate ==
    \/ \E c \in DOMAIN calls, prompt \in ConfigPrompts, options \in AnalysisOptionsSigned :
          AnalyzePrompt(c, prompt, options)
    \/ \E c \in DOMAIN calls, body \in Bodies : Resolve(c, body)
    \/ \E c \in DOMAIN calls, raw \in ConfigFailures : Reject(c, raw)
    \/ \E c \in DOMAIN calls : DelayElapsed(c)
    \/ \E c \in DOMAIN calls : Settle(c)

SpecTerminate ==
    /\ Init
    /\ [][NextTerminate]_vars
    /\ WF_vars(TransportCompletes)
    /\ WF_vars(TimerFires)

(***************************************************************************)
(* Two analyzePrompt calls on one client at once: each await of a call     *)
(* yields to the event loop, so the steps of the two calls interleave in   *)
(* every order.                                                            *)
(***************************************************************************)
ConcurrentCalls == {"c1", "c2"}

InitConcurrent ==
    \E cfg \in CtorConfigs :
        /\ config = Construct(cfg)
        /\ defaults = AxiosCreate(Construct(cfg))
        /\ calls = [c \in ConcurrentCalls |-> IdleCall]
        /\ snapshot = None
        /\ ctor = cfg
        /\ lastSet = [apiKey |-> None, baseUrl |-> None]

NextConcurrent ==
    \/ \E c \in DOMAIN calls, prompt \in ConfigPrompts, options \in AnalysisOptionsSigned :
          AnalyzePrompt(c, prompt, options)
    \/ \E c \in DOMAIN calls, body \in Bodies : Resolve(c, body)
    \/ \E c \in DOMAIN calls, raw \in ConfigFailures : Reject(c, raw)
    \/ \E c \in DOMAIN calls : DelayElapsed(c)
    \/ \E c \in DOMAIN calls : Settle(c)

SpecConcurrent == InitConcurrent /\ [][NextConcurrent]_vars

(***************************************************************************)
(* The public operations together: the setters, getConfig, analyzePrompt   *)
(* and healthCheck, in any order.                                          *)
(***************************************************************************)
NextPublic ==
    \/ getConfig
    \/ \E apiKey \in SetKeys : setApiKey(apiKey)
    \/ \E baseUrl \in SetUrlsWide : setBaseUrl(baseUrl)
    \/ \E c \in DOMAIN calls, prompt \in ConfigPrompts, options \in AnalysisOptions :
          AnalyzePrompt(c, prompt, options)
    \/ \E c \in DOMAIN calls : HealthCheck(c)
    \/ \E c \in DOMAIN calls, body \in Bodies : Resolve(c, body)
    \/ \E c \in DOMAIN calls, raw \in ConfigFailures : Reject(c, raw)
    \/ \E c \in DOMAIN calls : DelayElapsed(c)
    \/ \E c \in DOMAIN calls : Settle(c)

SpecPublic == Init /\ [][NextPublic]_vars

(***************************************************************************)
(* The operations over a transport that rejects either way: classified by  *)
(* the response interceptor, or untyped.                                   *)
(***************************************************************************)
NextWrap ==
    \/ \E c \in DOMAIN calls, prompt \in Prompts, options \in AnalysisOptions :
          AnalyzePrompt(c, prompt, options)
    \/ \E c \in DOMAIN calls : HealthCheck(c)
    \/ \E c \in DOMAIN calls, body \in Bodies : Resolve(c, body)
    \/ \E c \in DOMAIN calls, raw \in RawFailures : Reject(c, raw)
    \/ \E c \in DOMAIN calls, raw \in RawFailures : RejectUntyped(c, raw)
    \/ \E c \in DOMAIN calls : DelayElapsed(c)
    \/ \E c \in DOMAIN calls : Settle(c)

SpecWrap == Init /\ [][NextWrap]_vars

(***************************************************************************)
(* Vocabulary of the properties.                                           *)
(***************************************************************************)
\* the retry budget of a call, as the caller reads it: options.retries if
\* given, otherwise the client's configured retries
BudgetOf(call) ==
    IF call.options.retries # None THEN call.options.retries[1] ELSE config.retries

Failed(call) == call.pc = "done" /\ call.result = None
Succeeded(call) == call.pc = "done" /\ call.result # None

\* the latest failed attempt got an HTTP response with this status
RawStatusIs(call, status) ==
    /\ call.raw # None
    /\ call.raw[1].response # None
    /\ call.raw[1].response[1].status = status

\* every transport attempt of the call so far failed with this status
EveryAttemptFailedWith(call, status) ==
    /\ call.attempts > 0
    /\ call.result = None
    /\ call.sameFailure
    /\ RawStatusIs(call, status)

RetryableKinds == {"RateLimitError", "TimeoutError", "ServiceError"}

(***************************************************************************)
(* C1: when every transport attempt of an analyzePrompt call with retry    *)
(* budget R >= 0 fails with a 429 response, the call ends only after       *)
(* exactly R + 1 attempts, and it ends failing with RateLimitError.        *)
(***************************************************************************)
C1_RateLimitExhaustsBudget ==
    \A c \in DOMAIN calls :
        LET call == calls[c] IN
        (call.op = "analyzePrompt" /\ EveryAttemptFailedWith(call, 429) /\ BudgetOf(call) >= 0)
        => /\ call.attempts <= BudgetOf(call) + 1
           /\ call.pc \in {"inflight", "backoff", "done"}
           /\ call.pc = "backoff" => call.attempts <= BudgetOf(call)
           /\ call.pc = "done" => /\ call.attempts = BudgetOf(call) + 1
                                  /\ call.error.kind = "RateLimitError"
                                  /\ call.error.code = "RATE_LIMIT_ERROR"

C1_Witness ==
    \E c \in DOMAIN calls :
        /\ calls[c].op = "analyzePrompt"
        /\ EveryAttemptFailedWith(calls[c], 429)
        /\ Failed(calls[c])
        /\ calls[c].options.retries = Some(2)
        /\ config.retries # 2
        /\ calls[c].attempts = 3

(***************************************************************************)
(* C2: a failure classified as anything but rate-limit, timeout or service *)
(* failure is never retried.  Whenever the latest failure of a call is of  *)
(* such a class the call has ended, failing with that error, with no wait  *)
(* and no attempt after it, whatever budget remains; a 401 gives           *)
(* AuthenticationError, after exactly one attempt when it is the first     *)
(* failure of analyzePrompt and always for healthCheck.                    *)
(***************************************************************************)
C2_NonRetryablePropagates ==
    \A c \in DOMAIN calls :
        LET call == calls[c] IN
        /\ (call.raw # None /\ call.error.kind \notin RetryableKinds)
           => /\ Failed(call)
              /\ call.error.kind \in {"AuthenticationError", "ValidationError", "NexusVoidError"}
              /\ call.error.kind = "NexusVoidError" => call.error.code \in {"HTTP_ERROR", "UNKNOWN_ERROR"}
              /\ call.attempts = Len(call.waits) + 1
        /\ RawStatusIs(call, 401)
           => /\ Failed(call)
              /\ call.error.kind = "AuthenticationError"
              /\ call.attempts = Len(call.waits) + 1
              /\ (call.op = "healthCheck" \/ call.sameFailure) => call.attempts = 1

C2_Witness ==
    \E c \in DOMAIN calls :
        /\ calls[c].op = "analyzePrompt"
        /\ RawStatusIs(calls[c], 401)
        /\ Failed(calls[c])
        /\ calls[c].attempts = 2
        /\ calls[c].retries # None
        /\ calls[c].retries[1] >= 1

(***************************************************************************)
(* C4: for every prompt that is empty or is not a string, analyzePrompt    *)
(* fails with ValidationError and the transport is invoked zero times.     *)
(***************************************************************************)
C4_InvalidPromptRejected ==
    \A c \in DOMAIN calls :
        LET call == calls[c] IN
        (call.op = "analyzePrompt" /\ (call.prompt.type # "string" \/ call.prompt.val = 0))
        => /\ Failed(call)
           /\ call.error.kind = "ValidationError"
           /\ call.error.code = "VALIDATION_ERROR"
           /\ call.attempts = 0
           /\ call.req = None
           /\ call.waits = << >>

C4_Witness ==
    \E c \in DOMAIN calls :
        /\ calls[c].op = "analyzePrompt"
        /\ calls[c].prompt = [type |-> "number", val |-> 5]
        /\ Failed(calls[c])
        /\ calls[c].error.kind = "ValidationError"
        /\ calls[c].attempts = 0

(***************************************************************************)
(* C5: for every string prompt longer than 10,000, analyzePrompt fails     *)
(* with ValidationError and the transport is invoked zero times.           *)
(***************************************************************************)
C5_LongPromptRejected ==
    \A c \in DOMAIN calls :
        LET call == calls[c] IN
        (call.op = "analyzePrompt" /\ call.prompt.type = "string" /\ call.prompt.val > 10000)
        => /\ Failed(call)
           /\ call.error.kind = "ValidationError"
           /\ call.error.code = "VALIDATION_ERROR"
           /\ call.attempts = 0
           /\ call.req = None
           /\ call.waits = << >>

C5_Witness ==
    \E c \in DOMAIN calls :
        /\ calls[c].op = "analyzePrompt"
        /\ calls[c].prompt = [type |-> "string", val |-> 10001]
        /\ Failed(calls[c])
        /\ calls[c].error.kind = "ValidationError"
        /\ calls[c].attempts = 0

(***************************************************************************)
(* C3 (as stated): when the first k attempts of analyzePrompt fail with a  *)
(* retryable failure and attempt k+1 succeeds, k within the budget, the    *)
(* call returns that attempt's body after exactly k+1 attempts, and for    *)
(* k = 1 the wait before the second attempt is at least 1000 ms.  The      *)
(* number k of retried failures is the number of waits.                    *)
(***************************************************************************)
C3_Orig ==
    \A c \in DOMAIN calls :
        LET call == calls[c] IN
        (call.op = "analyzePrompt" /\ Succeeded(call))
        => /\ call.result[1] \in Bodies
           /\ call.attempts = Len(call.waits) + 1
           /\ Len(call.waits) <= BudgetOf(call)
           /\ Len(call.waits) = 1 => call.waits[1] >= 1000

(***************************************************************************)
(* C6 (as stated): after setApiKey('x'), every transport request issued    *)
(* afterwards by analyzePrompt or healthCheck carries the Authorization    *)
(* header 'Bearer x'.  A step in which a call makes an attempt, taken      *)
(* after a setApiKey, makes it with the credential last set.               *)
(***************************************************************************)
C6_Orig ==
    [][\A c \in DOMAIN calls :
          (/\ calls'[c].attempts = calls[c].attempts + 1
           /\ defaults.headers.common.Authorization # None)
          => calls'[c].req[1].Authorization = << << "Bearer", config.apiKey >> >>]_vars

(***************************************************************************)
(* C7 (as stated): every attempt of a call, the attempts after a backoff   *)
(* included, is sent with the credential and the base URL that were in     *)
(* force when the call was issued.                                         *)
(***************************************************************************)
C7_Orig ==
    \A c \in DOMAIN calls :
        LET call == calls[c] IN
        (call.op = "analyzePrompt" /\ call.req # None)
        => /\ call.req[1].baseURL = call.issued[1].baseURL
           /\ call.req[1].Authorization = call.issued[1].Authorization

(***************************************************************************)
(* C7 (amended): setApiKey and setBaseUrl have no effect on an attempt     *)
(* that is already dispatched, but every attempt, the attempts after a     *)
(* backoff included, is sent with the base URL and the Authorization       *)
(* header that the transport's defaults hold when that attempt is          *)
(* dispatched.                                                             *)
(***************************************************************************)
C7_AttemptReadsDefaultsAtDispatch ==
    [][\A c \in DOMAIN calls :
          /\ calls'[c].attempts = calls[c].attempts + 1
             => /\ calls'[c].req # None
                /\ calls'[c].req[1].baseURL = defaults.baseURL
                /\ calls'[c].req[1].Authorization = MergedAuthorization(defaults)
          /\ calls[c].pc = "inflight" => calls'[c].req = calls[c].req]_vars

C7_Witness ==
    \E c \in DOMAIN calls :
        /\ calls[c].op = "analyzePrompt"
        /\ calls[c].pc = "inflight"
        /\ calls[c].attempts = 2
        /\ calls[c].req[1].baseURL # calls[c].issued[1].baseURL
        /\ calls[c].req[1].baseURL = defaults.baseURL

(***************************************************************************)
(* C8 (as stated): with maxRetries the effective budget of the call, the   *)
(* wait before the retry made with `remaining` budget left is exactly      *)
(* 1000 ms x (maxRetries - remaining + 1); the i-th wait of a call is made *)
(* with maxRetries - (i - 1) left, so no wait is below 1000 ms.            *)
(***************************************************************************)
C8_Orig ==
    \A c \in DOMAIN calls :
        LET call == calls[c]
            maxRetries == BudgetOf(call)
        IN  \A i \in 1..Len(call.waits) :
                LET remaining == maxRetries - (i - 1) IN
                /\ call.waits[i] = 1000 * (maxRetries - remaining + 1)
                /\ call.waits[i] >= 1000

(***************************************************************************)
(* C9 (as stated): the backoff is exponential: within one analyzePrompt    *)
(* call each wait after the first is at least twice the previous wait.     *)
(* Stated for the calls that run on the client's configured budget.        *)
(***************************************************************************)
C9_Orig ==
    \A c \in DOMAIN calls :
        LET call == calls[c] IN
        (call.op = "analyzePrompt" /\ call.options.retries = None)
        => \A i \in 2..Len(call.waits) : call.waits[i] >= 2 * call.waits[i - 1]

(***************************************************************************)
(* C10: healthCheck makes exactly one transport attempt per call: a        *)
(* failure, of a retryable class or not, ends the call with its classified *)
(* error, without a wait and without a second attempt.                     *)
(***************************************************************************)
C10_HealthCheckSingleAttempt ==
    \A c \in DOMAIN calls :
        LET call == calls[c] IN
        call.op = "healthCheck"
        => /\ call.attempts = 1
           /\ call.waits = << >>
           /\ call.pc \in {"inflight", "done"}
           /\ call.raw # None => /\ Failed(call)
                                 /\ call.error = handleError(call.raw[1])

C10_Witness ==
    \E c \in DOMAIN calls :
        /\ calls[c].op = "healthCheck"
        /\ Failed(calls[c])
        /\ RawStatusIs(calls[c], 503)
        /\ calls[c].error.kind = "ServiceError"
        /\ config.retries >= 1
        /\ calls[c].attempts = 1

(***************************************************************************)
(* C11: classification is a total function of the raw failure, by this     *)
(* table: a response's status decides, whatever the transport code (401    *)
(* AuthenticationError, 429 RateLimitError, 400 ValidationError, 408       *)
(* TimeoutError, 500/502/503/504 ServiceError with status 500, any other   *)
(* status HTTP_ERROR carrying it); without a response the transport code   *)
(* decides (ECONNABORTED TimeoutError, ENOTFOUND/ECONNREFUSED              *)
(* ServiceError, anything else UNKNOWN_ERROR).                             *)
(***************************************************************************)
ClassOf(raw) ==
    IF raw.response # None
    THEN LET st == raw.response[1].status IN
         CASE st = 401 -> [kind |-> "AuthenticationError", code |-> "AUTH_ERROR", status |-> << 401 >>]
           [] st = 429 -> [kind |-> "RateLimitError", code |-> "RATE_LIMIT_ERROR", status |-> << 429 >>]
           [] st = 400 -> [kind |-> "ValidationError", code |-> "VALIDATION_ERROR", status |-> << 400 >>]
           [] st = 408 -> [kind |-> "TimeoutError", code |-> "TIMEOUT_ERROR", status |-> << 408 >>]
           [] st \in {500, 502, 503, 504} ->
                  [kind |-> "ServiceError", code |-> "SERVICE_ERROR", status |-> << 500 >>]
           [] OTHER -> [kind |-> "NexusVoidError", code |-> "HTTP_ERROR", status |-> << st >>]
    ELSE CASE raw.code = "ECONNABORTED" ->
                  [kind |-> "TimeoutError", code |-> "TIMEOUT_ERROR", status |-> << 408 >>]
           [] raw.code \in {"ENOTFOUND", "ECONNREFUSED"} ->
                  [kind |-> "ServiceError", code |-> "SERVICE_ERROR", status |-> << 500 >>]
           [] OTHER -> [kind |-> "NexusVoidError", code |-> "UNKNOWN_ERROR", status |-> << >>]

HasClass(error, class) ==
    /\ error.kind = class.kind
    /\ error.code = class.code
    /\ error.status = class.status

C11_ClassificationTable ==
    \A c \in DOMAIN calls :
        calls[c].raw # None
        => /\ calls[c].caught # None
           /\ HasClass(calls[c].caught[1], ClassOf(calls[c].raw[1]))

C11_Witness ==
    \E c \in DOMAIN calls :
        /\ calls[c].raw # None
        /\ calls[c].raw[1].response # None
        /\ calls[c].raw[1].response[1].status = 503
        /\ calls[c].raw[1].code = "ECONNABORTED"
        /\ calls[c].caught # None
        /\ calls[c].caught[1].kind = "ServiceError"

(***************************************************************************)
(* C12: getConfig returns a snapshot.  A write to a field of a returned    *)
(* configuration object changes nothing but that object: the client's      *)
(* configuration, the transport defaults that later requests are built     *)
(* from (credential, base URL, timeout) and the calls with their retry     *)
(* budgets stay as they are, and what getConfig returns is the client's    *)
(* configuration, whatever was written to an object returned earlier.      *)
(***************************************************************************)
C12_GetConfigSnapshot ==
    [][ /\ (snapshot # None /\ snapshot' # None /\ snapshot'[1].mutated /\ snapshot' # snapshot)
           => (config' = config /\ defaults' = defaults /\ calls' = calls)
        /\ (snapshot' # None /\ ~snapshot'[1].mutated /\ snapshot' # snapshot)
           => (snapshot'[1].value = config /\ config' = config)
      ]_vars

\* a returned configuration was written to and differs from the client's in
\* timeout, and a request is in flight with the client's timeout
C12_Witness ==
    /\ snapshot # None
    /\ snapshot[1].mutated
    /\ snapshot[1].value.timeout # config.timeout
    /\ snapshot[1].value.apiKey # config.apiKey
    /\ \E c \in DOMAIN calls :
          /\ calls[c].pc = "inflight"
          /\ calls[c].options.timeout = None
          /\ calls[c].req[1].timeout = config.timeout

(***************************************************************************)
(* C13: every failure outcome of analyzePrompt and healthCheck is a typed  *)
(* taxonomy error.  When what the operation caught is a NexusVoidError     *)
(* (base or subclass), that error is the outcome, with kind, code, status  *)
(* and message unchanged; anything else caught is wrapped as a             *)
(* ServiceError (SERVICE_ERROR, 500).  A finished call has a response body *)
(* or one such error.                                                      *)
(***************************************************************************)
TaxonomyKinds ==
    {"NexusVoidError", "AuthenticationError", "RateLimitError",
     "ValidationError", "ServiceError", "TimeoutError"}

ConstructedTimeout == IF ctor.timeout # None THEN ctor.timeout[1] ELSE DefaultTimeout
ConstructedRetries == IF ctor.retries # None THEN ctor.retries[1] ELSE DefaultRetries

C14_OptionsDoNotMutateClient ==
    [][ /\ calls' # calls => (config' = config /\ defaults' = defaults)
        /\ (snapshot' # snapshot /\ snapshot' # None /\ ~snapshot'[1].mutated)
              => /\ snapshot'[1].value.timeout = ConstructedTimeout
                 /\ snapshot'[1].value.retries = ConstructedRetries
        /\ \A c \in DOMAIN calls :
              ( /\ calls[c].pc = "idle"
                /\ calls'[c].pc = "inflight"
                /\ calls'[c].options = [timeout |-> None, retries |-> None] )
              => /\ calls'[c].retries = << ConstructedRetries >>
                 /\ calls'[c].req[1].timeout = ConstructedTimeout
      ]_vars

\* an analyzePrompt call with both options given, different from the
\* client's, has failed after using up its budget, and getConfig returns the
\* constructed timeout and retries
C14_Witness ==
    /\ snapshot # None
    /\ ~snapshot[1].mutated
    /\ snapshot[1].value.timeout = ConstructedTimeout
    /\ snapshot[1].value.retries = ConstructedRetries
    /\ \E c \in DOMAIN calls :
          /\ Failed(calls[c])
          /\ calls[c].attempts > 1
          /\ calls[c].options.timeout # None
          /\ calls[c].options.timeout[1] # ConstructedTimeout
          /\ calls[c].options.retries # None
          /\ calls[c].options.retries[1] # ConstructedRetries

(***************************************************************************)
(* C15: after any sequence of setApiKey and setBaseUrl calls, getConfig    *)
(* returns as apiKey the argument of the latest setApiKey (the             *)
(* constructor's apiKey if there was none) and as baseUrl the argument of  *)
(* the latest setBaseUrl (the constructed baseUrl if there was none); a    *)
(* setter leaves the other fields of the configuration as they are.        *)
(***************************************************************************)
ConstructedBaseUrl == IF ctor.baseUrl # None THEN ctor.baseUrl[1] ELSE DefaultBaseUrl

C15_SettersUpdateConfig ==
    [][ /\ (snapshot' # snapshot /\ snapshot' # None /\ ~snapshot'[1].mutated)
              => /\ snapshot'[1].value.apiKey =
                       (IF lastSet.apiKey # None THEN lastSet.apiKey[1] ELSE ctor.apiKey)
                 /\ snapshot'[1].value.baseUrl =
                       (IF lastSet.baseUrl # None THEN lastSet.baseUrl[1] ELSE ConstructedBaseUrl)
                 /\ snapshot'[1].value.timeout = ConstructedTimeout
                 /\ snapshot'[1].value.retries = ConstructedRetries
        /\ lastSet'.apiKey # lastSet.apiKey
              => /\ config'.apiKey = lastSet'.apiKey[1]
                 /\ config'.baseUrl = config.baseUrl
                 /\ config'.timeout = config.timeout
                 /\ config'.retries = config.retries
        /\ lastSet'.baseUrl # lastSet.baseUrl
              => /\ config'.baseUrl = lastSet'.baseUrl[1]
                 /\ config'.apiKey = config.apiKey
                 /\ config'.timeout = config.timeout
                 /\ config'.retries = config.retries
      ]_vars

\* getConfig has returned the argument of a setApiKey as apiKey and, with
\* no setBaseUrl so far, the constructor's baseUrl; and another setApiKey
\* with a different argument has run since
C15_Witness ==
    /\ snapshot # None
    /\ ~snapshot[1].mutated
    /\ snapshot[1].value.apiKey \in SetKeysWide
    /\ lastSet.apiKey # None
    /\ lastSet.apiKey[1] # snapshot[1].value.apiKey
    /\ config.apiKey = lastSet.apiKey[1]
    /\ lastSet.baseUrl = None
    /\ ctor.baseUrl # None
    /\ snapshot[1].value.baseUrl = ctor.baseUrl[1]

(***************************************************************************)
(* C16: a client constructed with only an apiKey has the configuration     *)
(* {apiKey as given, baseUrl 'https://api.nexusvoid.com', timeout 30000,   *)
(* retries 3}; every field given to the constructor is kept as given and   *)
(* every field not given takes its default.  Stated of what getConfig      *)
(* returns while no setter has run.                                        *)
(***************************************************************************)
C16_ConstructorDefaults ==
    (snapshot # None /\ ~snapshot[1].mutated /\ lastSet.apiKey = None /\ lastSet.baseUrl = None)
    => LET value == snapshot[1].value IN
       /\ value.apiKey = ctor.apiKey
       /\ value.baseUrl = (IF ctor.baseUrl # None THEN ctor.baseUrl[1]
                                                  ELSE "https://api.nexusvoid.com")
       /\ value.timeout = (IF ctor.timeout # None THEN ctor.timeout[1] ELSE 30000)
       /\ value.retries = (IF ctor.retries # None THEN ctor.retries[1] ELSE 3)
       /\ DOMAIN value = {"apiKey", "baseUrl", "timeout", "retries"}

\* constructed with only an apiKey, and getConfig has returned the defaults
C16_Witness ==
    /\ ctor.baseUrl = None /\ ctor.timeout = None /\ ctor.retries = None
    /\ lastSet.apiKey = None /\ lastSet.baseUrl = None
    /\ snapshot # None
    /\ snapshot[1] = [alias |-> FALSE, mutated |-> FALSE,
                      value |-> [apiKey |-> ctor.apiKey, baseUrl |-> "https://api.nexusvoid.com",
                                 timeout |-> 30000, retries |-> 3]]

(***************************************************************************)
(* C17: every transport attempt of an analyzePrompt call is issued with    *)
(* timeout options.timeout whenever options.timeout is given (0 included)  *)
(* and with the client's configured timeout only when it is not given.     *)
(***************************************************************************)
C17_Orig ==
    \A c \in DOMAIN calls :
        (calls[c].op = "analyzePrompt" /\ calls[c].attempts > 0)
        => calls[c].req[1].timeout =
              (IF calls[c].options.timeout # None THEN calls[c].options.timeout[1]
                                                  ELSE config.timeout)

MessageOf(raw) ==
    IF raw.response # None
    THEN LET data == raw.response[1].data IN
         IF data.error # "" THEN data.error
         ELSE IF data.message # "" THEN data.message
         ELSE IF raw.message # "" THEN raw.message
         ELSE "Unknown error"
    ELSE CASE raw.code = "ECONNABORTED" -> "Request timeout"
           [] raw.code \in {"ENOTFOUND", "ECONNREFUSED"} -> "Unable to connect to NexusVoid API"
           [] OTHER -> IF raw.message # "" THEN raw.message ELSE "Unknown error"

C18_LastErrorPropagated ==
    \A c \in DOMAIN calls :
        LET call == calls[c] IN
        (call.op = "analyzePrompt" /\ Failed(call) /\ call.raw # None)
        => /\ HasClass(call.error, ClassOf(call.raw[1]))
           /\ call.error.message = MessageOf(call.raw[1])

\* a call failed after three attempts that did not all fail the same way,
\* the last with 429, and its error is the RateLimitError of that attempt
C18_Witness ==
    \E c \in DOMAIN calls :
        /\ calls[c].op = "analyzePrompt"
        /\ Failed(calls[c])
        /\ calls[c].attempts = 3
        /\ calls[c].retries = << 0 >>
        /\ ~calls[c].sameFailure
        /\ RawStatusIs(calls[c], 429)
        /\ calls[c].error.kind = "RateLimitError"
        /\ calls[c].error.message = "slow down"

(***************************************************************************)
(* C19: a failed analyzePrompt attempt is retried whenever budget remains  *)
(* and the failure is classified RateLimitError, TimeoutError or           *)
(* ServiceError, so a call ends with such an error only with its budget    *)
(* used up; and every ServiceError that classification produces comes from *)
(* a status 500, 502, 503 or 504 or from a connectivity failure            *)
(* (ENOTFOUND, ECONNREFUSED) without a response.                           *)
(***************************************************************************)
ServiceOrigin(raw) ==
    \/ raw.response # None /\ raw.response[1].status >= 500
                           /\ raw.response[1].status \in {500, 502, 503, 504}
    \/ raw.response = None /\ raw.code \in {"ENOTFOUND", "ECONNREFUSED"}

C19_RetryableAreRetried ==
    \A c \in DOMAIN calls :
        LET call == calls[c] IN
        (call.op = "analyzePrompt" /\ call.raw # None)
        => /\ (Failed(call) /\ call.error.kind \in RetryableKinds) => call.retries = << 0 >>
           /\ (call.pc = "backoff") => /\ call.error.kind \in RetryableKinds
                                       /\ call.retries[1] > 0
           /\ (call.pc \in {"backoff", "done"} /\ call.result = None
                 /\ call.error.kind = "ServiceError") => ServiceOrigin(call.raw[1])

\* a call waits to retry after a connectivity failure classified as
\* ServiceError
C19_Witness ==
    \E c \in DOMAIN calls :
        /\ calls[c].op = "analyzePrompt"
        /\ calls[c].pc = "backoff"
        /\ calls[c].error.kind = "ServiceError"
        /\ calls[c].raw # None
        /\ calls[c].raw[1].response = None
        /\ calls[c].raw[1].code = "ECONNREFUSED"

(***************************************************************************)
(* C24: the configuration record and the transport agree on the endpoint.  *)
(* In every state reached from construction by setBaseUrl, setApiKey,      *)
(* getConfig, analyzePrompt and healthCheck, the base URL the transport    *)
(* gives the next request is the baseUrl getConfig returns.                *)
(***************************************************************************)
C24_EndpointInSync ==
    /\ defaults.baseURL = config.baseUrl
    /\ defaults.baseURL = (IF lastSet.baseUrl # None THEN lastSet.baseUrl[1] ELSE ConstructedBaseUrl)

\* after a setBaseUrl, getConfig has returned its argument and a request
\* made since is in flight to the same base URL
C24_Witness ==
    /\ lastSet.baseUrl # None
    /\ snapshot # None
    /\ snapshot[1].value.baseUrl = lastSet.baseUrl[1]
    /\ snapshot[1].value.baseUrl # ConstructedBaseUrl
    /\ \E c \in DOMAIN calls :
          /\ calls[c].pc = "inflight"
          /\ calls[c].req[1].baseURL = lastSet.baseUrl[1]
          /\ calls[c].issued[1].baseURL = lastSet.baseUrl[1]

(***************************************************************************)
(* C23: within an analyzePrompt call a backoff wait happens only between a *)
(* failed retryable attempt and the next attempt: none before the first    *)
(* attempt, none after the final one.  While an attempt is in flight and   *)
(* on completion the waits number the attempts minus one; while the call   *)
(* waits, it has waited once per attempt and its latest attempt failed     *)
(* retryably; a call rejected by local validation made no attempt and no   *)
(* wait.                                                                   *)
(***************************************************************************)
C23_WaitsBetweenAttempts ==
    \A c \in DOMAIN calls :
        LET call == calls[c] IN
        call.op = "analyzePrompt"
        => /\ call.pc = "inflight" => Len(call.waits) = call.attempts - 1
           /\ call.pc = "backoff" => /\ Len(call.waits) = call.attempts
                                     /\ call.raw # None
                                     /\ ClassOf(call.raw[1]).kind \in RetryableKinds
           /\ (call.pc = "done" /\ call.attempts > 0) => Len(call.waits) = call.attempts - 1
           /\ (call.pc = "done" /\ call.attempts = 0)
                 => /\ Len(call.waits) = 0
                    /\ call.error.kind = "ValidationError"

\* a call has failed on its third attempt, with a failure that is not
\* retryable, after two waits
C23_Witness ==
    \E c \in DOMAIN calls :
        /\ calls[c].op = "analyzePrompt"
        /\ Failed(calls[c])
        /\ calls[c].attempts = 3
        /\ Len(calls[c].waits) = 2
        /\ calls[c].error.kind \notin RetryableKinds
        /\ calls[c].retries # << 0 >>

(***************************************************************************)
(* C22: every analyzePrompt call terminates.  Provided each transport      *)
(* attempt and each backoff wait eventually completes, a call that is      *)
(* awaiting the transport or a backoff timer eventually returns a result   *)
(* or fails with an error; and in every reachable state the attempts it    *)
(* has made number at most max(R, 0) + 1, R its retry budget, so a zero or *)
(* negative budget gives exactly one attempt.                              *)
(***************************************************************************)
AttemptBound(call) ==
    (IF BudgetOf(call) > 0 THEN BudgetOf(call) ELSE 0) + 1

C22_Terminates ==
    /\ [](\A c \in Calls :
             calls[c].op = "analyzePrompt"
             => /\ calls[c].attempts <= AttemptBound(calls[c])
                /\ (calls[c].pc = "done" /\ BudgetOf(calls[c]) <= 0 /\ calls[c].attempts > 0)
                      => calls[c].attempts = 1)
    /\ \A c \in Calls :
          (calls[c].op = "analyzePrompt" /\ calls[c].pc \in {"inflight", "backoff"})
          ~> (calls[c].pc = "done" /\ (calls[c].result # None \/ calls[c].error # NoError))

\* a call with budget -1 has failed with a retryable error after its one
\* attempt
C22_Witness ==
    \E c \in Calls :
        /\ calls[c].op = "analyzePrompt"
        /\ calls[c].options.retries = << 0 - 1 >>
        /\ Failed(calls[c])
        /\ calls[c].attempts = 1
        /\ calls[c].error.kind \in RetryableKinds

(***************************************************************************)
(* C21: concurrent calls on one client are independent.  With two          *)
(* analyzePrompt calls at once, a call awaiting the transport or a backoff *)
(* timer never keeps the other from its next step (a call in backoff can   *)
(* make its next attempt, a call in flight can be answered, an idle slot   *)
(* can issue a call, whatever the other call does); a step of one call     *)
(* changes nothing of the other call nor of the client; and each call's    *)
(* attempts, waits and outcome follow from its own responses and budget.   *)
(***************************************************************************)
OwnCourse(call) ==
    /\ call.pc = "inflight" => Len(call.waits) = call.attempts - 1
    /\ call.pc = "backoff" => Len(call.waits) = call.attempts
    /\ call.pc \in {"inflight", "backoff", "done"} => call.attempts <= AttemptBound(call)
    /\ call.pc = "backoff" => call.attempts < AttemptBound(call)
    /\ (Failed(call) /\ call.raw # None)
          => /\ HasClass(call.error, ClassOf(call.raw[1]))
             /\ Len(call.waits) = call.attempts - 1
             /\ call.error.kind \in RetryableKinds => call.attempts = AttemptBound(call)
    /\ Succeeded(call) => Len(call.waits) = call.attempts - 1

C21_CallsIndependent ==
    /\ [](\A c \in ConcurrentCalls :
             /\ OwnCourse(calls[c])
             /\ calls[c].pc = "backoff" => ENABLED DelayElapsed(c)
             /\ calls[c].pc = "inflight"
                   => /\ \A body \in Bodies : ENABLED Resolve(c, body)
                      /\ \A raw \in ConfigFailures : ENABLED Reject(c, raw)
             /\ calls[c].pc = "idle"
                   => \A options \in AnalysisOptionsSigned :
                         ENABLED AnalyzePrompt(c, [type |-> "string", val |-> 10000], options))
    /\ [][ \A c \in ConcurrentCalls :
              calls'[c] # calls[c]
              => /\ \A d \in ConcurrentCalls \ {c} : calls'[d] = calls[d]
                 /\ config' = config
                 /\ defaults' = defaults ]_vars

\* one call waits in backoff while the other, issued with a different
\* budget, has its second attempt in flight
C21_Witness ==
    /\ calls["c1"].op = "analyzePrompt"
    /\ calls["c2"].op = "analyzePrompt"
    /\ calls["c1"].pc = "backoff"
    /\ calls["c2"].pc = "inflight"
    /\ calls["c2"].attempts = 2
    /\ BudgetOf(calls["c1"]) # BudgetOf(calls["c2"])
    /\ calls["c1"].attempts = AttemptBound(calls["c1"]) - 1

====
